---- MODULE Spec2Model ----
(***************************************************************************)
(* chadbuffer: the entrypoint of src/lib.rs as a state machine over the    *)
(* host-supplied input region.  The region is modelled by its fields, each *)
(* kept in the byte representation the code reads (little-endian byte      *)
(* sequences for the scalars whose width matters), plus the first MaxSize  *)
(* bytes of the buffer data region and the instruction block the host      *)
(* serialises behind the buffer account.                                   *)
(*                                                                         *)
(* One invocation is two steps: Host prepares the region (account count,   *)
(* signer record, instruction), then exactly one of the entrypoint's paths *)
(* runs to completion.  The buffer record persists between invocations.    *)
(***************************************************************************)
EXTENDS Integers, Sequences, FiniteSets, TLC

(***************************************************************************)
(* Program constants (src/lib.rs:17-37), in decimal.                       *)
(***************************************************************************)
ALIGNMENT == 8
PUBKEY_LENGTH == 32
SIG_MUT_NODUP == 66047
U24_MASK == 16777215
BUFFER_DATA == 10464
IX_MIN_OFFSET == 20680

\* size_of::<u64>(), size_of::<u8>(), size_of::<u32>(), size_of::<u24>()
SIZE_U64 == 8
SIZE_U8 == 1
SIZE_U32 == 4
SIZE_U24 == 3

(***************************************************************************)
(* Bounds of the model.                                                    *)
(***************************************************************************)
\* bytes of the buffer data region that are tracked, and largest stored length
MaxSize == 3
\* largest number of data bytes an Init or Write instruction carries
MaxData == 2
\* largest stored length of the single-invocation specification
MaxStored == 16

(***************************************************************************)
(* Bytes and little-endian scalars.                                        *)
(***************************************************************************)
\* the n-byte little-endian encoding of v
RECURSIVE ToLE(_, _)
ToLE(v, n) == IF n = 0 THEN <<>> ELSE <<v % 256>> \o ToLE(v \div 256, n - 1)

\* the value of a little-endian byte sequence (used where it fits an integer)
RECURSIVE FromLE(_)
FromLE(s) == IF s = <<>> THEN 0 ELSE s[1] + 256 * FromLE(Tail(s))

\* bitwise and of two naturals
RECURSIVE BitAnd(_, _)
BitAnd(a, b) ==
    IF a = 0 \/ b = 0 THEN 0
    ELSE (a % 2) * (b % 2) + 2 * BitAnd(a \div 2, b \div 2)

\* a & m on 64-bit values held as 8 little-endian bytes
And64(a, m) == [i \in 1..SIZE_U64 |-> BitAnd(a[i], m[i])]

\* wrapping 64-bit addition on 8 little-endian bytes
RECURSIVE Carry(_, _, _)
Carry(a, b, i) == IF i = 0 THEN 0 ELSE (a[i] + b[i] + Carry(a, b, i - 1)) \div 256
\* variant: each byte added on its own, the carries lost
Add64_NoCarry(a, b) == [i \in 1..SIZE_U64 |-> (a[i] + b[i]) % 256]
Add64(a, b) == [i \in 1..SIZE_U64 |-> (a[i] + b[i] + Carry(a, b, i - 1)) % 256]

\* wrapping 64-bit subtraction on 8 little-endian bytes
RECURSIVE Borrow(_, _, _)
Borrow(a, b, i) ==
    IF i = 0 THEN 0
    ELSE IF a[i] - b[i] - Borrow(a, b, i - 1) < 0 THEN 1 ELSE 0
Sub64(a, b) ==
    [i \in 1..SIZE_U64 |-> (256 + a[i] - b[i] - Borrow(a, b, i - 1)) % 256]

\* a 64-bit value below 2^31 can be used as an integer
IsSmall(n) == n[4] < 128 /\ \A i \in 5..SIZE_U64 : n[i] = 0
SmallVal(n) == FromLE(SubSeq(n, 1, 4))

Zero64 == ToLE(0, SIZE_U64)
Max64 == [i \in 1..SIZE_U64 |-> 255]

(***************************************************************************)
(* Public keys: 32-byte sequences.                                         *)
(***************************************************************************)
KeyA == [i \in 1..PUBKEY_LENGTH |-> 1]
\* differs from KeyA in the last byte only
KeyB == [i \in 1..PUBKEY_LENGTH |-> IF i = PUBKEY_LENGTH THEN 2 ELSE 1]
Keys == {KeyA, KeyB}
ZeroKey == [i \in 1..PUBKEY_LENGTH |-> 0]
\* the program id the host serialises after the instruction data; also the
\* owner of a live buffer account.  Its first byte is 0.
ProgramId == [i \in 1..PUBKEY_LENGTH |-> IF i = 1 THEN 0 ELSE 7]

VARIABLES
    pc,             \* "idle": no region; "ready": region prepared, entrypoint about
                    \* to run; "done": entrypoint returned
    numAccounts,    \* 8 bytes at 0x0000
    signerFlags,    \* 4 bytes at SIGNER_HEADER: dup marker, is_signer, is_writable, executable
    signerKey,      \* 32 bytes at SIGNER_KEY
    signerLamports, \* 8 bytes at SIGNER_LAMPORTS
    bufOwner,       \* 32 bytes at BUFFER_OWNER
    bufLamports,    \* 8 bytes at BUFFER_LAMPORTS
    bufSize,        \* u64 at BUFFER_SIZE (stored data length)
    bufAuth,        \* 32 bytes at BUFFER_AUTH
    bufData,        \* the first MaxSize bytes at BUFFER_DATA
    ixBase,         \* offset at which the host put the instruction block
    ixData,         \* the instruction data the host was given: discriminator, then
                    \* payload
    ixBlock,        \* the bytes of the region from ixBase on: 8-byte data length,
                    \* instruction data, program id
    ret,            \* return signal: 1 after set_return_imm!(1), else 0
    log,            \* the line passed to sol_log by the last invocation
    aborted,        \* the last invocation ended in a memory fault
    inited,         \* an Init has run on this buffer
    closedBy,       \* signer record left by the invocation just before, if it was a
                    \* successful Close; <<>> otherwise
    handOver        \* <<A, B>>: the last Assign since the last Init was signed by
                    \* authority A and carried key B; <<>> if there was none

vars == <<pc, numAccounts, signerFlags, signerKey, signerLamports, bufOwner,
          bufLamports, bufSize, bufAuth, bufData, ixBase, ixData, ixBlock, ret, log,
          aborted, inited, closedBy, handOver>>

signerRec == <<signerKey, signerLamports>>
bufferRec == <<bufOwner, bufLamports, bufSize, bufAuth, bufData>>
inputs == <<numAccounts, signerFlags, ixBase, ixData>>

(***************************************************************************)
(* The host side: what it serialises into the region before each call.     *)
(***************************************************************************)
\* where the host puts the instruction block: behind the buffer account's data,
\* its 10240 spare bytes and rent epoch, on an 8-byte boundary
HostIxBase(len) == ((IX_MIN_OFFSET + len + ALIGNMENT - 1) \div ALIGNMENT) * ALIGNMENT

\* the instruction block as the host serialises it: 8-byte data length,
\* instruction data, program id
HostIxBlock(data) == ToLE(Len(data), SIZE_U64) \o data \o ProgramId

\* first offset behind the region
InputEnd == ixBase + Len(ixBlock)

\* the byte at offset addr of the region, for the offsets that are tracked: the
\* instruction block and the first bytes of the buffer data.  No byte behind
\* the region can be read, and the entrypoint reads no byte through this
\* operator that is not tracked.
ReadByte(addr) ==
    CASE addr >= ixBase /\ addr < InputEnd -> ixBlock[addr - ixBase + 1]
      [] addr >= BUFFER_DATA /\ addr < BUFFER_DATA + Len(bufData)
             -> bufData[addr - BUFFER_DATA + 1]

\* sample contents
InitPayload(n) == [i \in 1..n |-> 170 + 17 * (i - 1)]
WritePayload(n) == [i \in 1..n |-> 256 - i]
OldData == [i \in 1..MaxSize |-> 16 + i]
WriteOffsets == {<<0, 0, 0>>, <<1, 0, 0>>, <<0, 1, 0>>}

Instructions ==
    {<<>>}
    \cup {<<0>> \o InitPayload(n) : n \in 0..MaxData}
    \cup {<<1>> \o k : k \in Keys}
    \cup {<<2>> \o o \o WritePayload(n) : o \in WriteOffsets, n \in 0..MaxData}
    \cup {<<2, 0, 0>>}
    \* a Write of no bytes to an offset behind the region
    \cup {<<2, 255, 255, 255>>}
    \* a Write onto the instruction block (offset 0x27f0), and one whose
    \* destination (offset 0x27fd) reaches its own source
    \cup {<<2, 240, 39, 0>> \o WritePayload(1), <<2, 253, 39, 0>> \o WritePayload(2)}
    \* a Write that starts on the last bytes of the instruction block (offset
    \* 0x281d) and ends behind the region
    \cup {<<2, 29, 40, 0>> \o WritePayload(2)}
    \cup {<<3>>}
    \cup {<<4>>, <<9>>}

AccountCounts == {ToLE(2, SIZE_U64), ToLE(3, SIZE_U64), ToLE(258, SIZE_U64)}
SignerFlagSets == {<<255, 1, 1, 0>>, <<255, 0, 1, 0>>, <<255, 1, 1, 1>>}
\* sample signer accounts: key and lamport balance
Signers == {<<KeyA, ToLE(250, SIZE_U64)>>, <<KeyB, Max64>>}
BufferLamportVals == {ToLE(7, SIZE_U64)}

(***************************************************************************)
(* Layout decoding (lib.rs:49-79).                                         *)
(***************************************************************************)
\* `*input as u64`: input is *mut u8, so one byte is read and widened
AccountCount == numAccounts[1]

\* variant: only the low three bytes of the header are compared
SignerHeader_U24 == FromLE(SubSeq(signerFlags, 1, 3))
\* `*(input.add(SIGNER_HEADER) as *const u32)`
SignerHeader == FromLE(signerFlags)

\* variant: a full step is added to an offset that is aligned already
AlignOffset_Full(off, align) == align - (off % align)
\* ptr.align_offset(align) for the region base being 8-byte aligned
AlignOffset(off, align) == (align - (off % align)) % align

\* 2a) offset of the instruction block
IxOffset ==
    LET o1 == IX_MIN_OFFSET + bufSize
    IN  o1 + AlignOffset(o1, ALIGNMENT)

\* 2b) ix_data_size: the u64 at that offset, as its 8 bytes
IxDataSize == [i \in 1..SIZE_U64 |-> ReadByte(IxOffset + i - 1)]

\* 2b) discriminator, and the offset behind it
Discriminator == ReadByte(IxOffset + SIZE_U64)
PayloadOffset == IxOffset + SIZE_U64 + SIZE_U8

\* variant: the last byte is left out of the comparison
sol_memcmp_Short(a, b, n) == IF \A i \in 1..(n - 1) : a[i] = b[i] THEN 0 ELSE 1
sol_memcmp(a, b, n) ==
    IF \A i \in 1..n : a[i] = b[i] THEN 0
    ELSE LET k == CHOOSE i \in 1..n :
                      /\ a[i] # b[i]
                      /\ \A j \in 1..(i - 1) : a[j] = b[j]
         IN  a[k] - b[k]

\* sol_memcpy(dst, src, n) between two byte slices
sol_memcpy(dst, src, n) == [i \in 1..Len(dst) |-> IF i <= n THEN src[i] ELSE dst[i]]

\* from_raw_parts(input.add(off), n): the n bytes of the region at offset off
RawParts(off, n) == [i \in 1..n |-> ReadByte(off + i - 1)]

\* sol_memcpy of n bytes from offset src to offset dst, seen on the tracked
\* bytes of the data region
CopyData(data, dst, src, n) ==
    [i \in 1..Len(data) |->
        LET a == BUFFER_DATA + i - 1
        IN  IF dst <= a /\ a < dst + n THEN ReadByte(src + (a - dst)) ELSE data[i]]

\* the same copy, seen on the bytes of the instruction block
CopyBlock(block, dst, src, n) ==
    [i \in 1..Len(block) |->
        LET a == ixBase + i - 1
        IN  IF dst <= a /\ a < dst + n THEN ReadByte(src + (a - dst)) ELSE block[i]]

\* a copy of len > 0 bytes to offset dst (both u64) that leaves the region
\* cannot complete; a copy of no bytes touches nothing, wherever it points
OutOfRegion(dst, src, len) ==
    /\ len # Zero64
    /\ \/ ~IsSmall(len)
       \/ ~IsSmall(dst)
       \/ SmallVal(dst) + SmallVal(len) > InputEnd
       \/ src + SmallVal(len) > InputEnd

\* sol_memcpy refuses a copy whose source and destination ranges overlap
Overlaps(dst, src, len) ==
    /\ len # Zero64
    /\ IsSmall(len)
    /\ IsSmall(dst)
    /\ SmallVal(dst) < src + SmallVal(len)
    /\ src < SmallVal(dst) + SmallVal(len)

Faults(dst, src, len) == OutOfRegion(dst, src, len) \/ Overlaps(dst, src, len)

\* the number of bytes of a copy that leaves the region which lie inside it,
\* at the source and at the destination
CopyFit(dst, src, len) ==
    IF ~IsSmall(dst) THEN 0
    ELSE LET d == InputEnd - SmallVal(dst)
             r == InputEnd - src
             room == IF d < r THEN d ELSE r
         IN  IF room <= 0 THEN 0
             ELSE IF IsSmall(len) /\ SmallVal(len) < room THEN SmallVal(len)
             ELSE room

\* the number of bytes a copy has written when it ends: all of them; or, for a
\* copy that leaves the region (undefined behaviour of the slices built at
\* lib.rs:103-104 and 123-124), any number of the bytes that fit, none
\* included; or none, for a copy that is refused
CopiedLengths(dst, src, len) ==
    IF len = Zero64 THEN {0}
    ELSE IF OutOfRegion(dst, src, len) THEN 0..CopyFit(dst, src, len)
    ELSE IF Overlaps(dst, src, len) THEN {0}
    ELSE {SmallVal(len)}

\* the tracked data after the first k bytes of a copy were written
DataAfterCopy(dst, src, k) ==
    IF k = 0 THEN bufData ELSE CopyData(bufData, SmallVal(dst), src, k)

\* the instruction block after the first k bytes of a copy were written
BlockAfterCopy(dst, src, k) ==
    IF k = 0 THEN ixBlock ELSE CopyBlock(ixBlock, SmallVal(dst), src, k)

PassAccounts == AccountCount = 2
PassSigner == SignerHeader = SIG_MUT_NODUP
\* variant: the authority is checked for the known non-Init discriminators only
AuthorityMismatch_Known ==
    Discriminator \in 1..3 /\ sol_memcmp(bufAuth, signerKey, PUBKEY_LENGTH) # 0
\* lib.rs:91
AuthorityMismatch ==
    Discriminator > 0 /\ sol_memcmp(bufAuth, signerKey, PUBKEY_LENGTH) # 0

\* variant: the discriminator byte is not taken off the length
InitSize_Whole == IxDataSize
\* Init: ix_data_size -= size_of::<u8>()
InitSize == Sub64(IxDataSize, ToLE(SIZE_U8, SIZE_U64))

\* Write: ix_data_size -= size_of::<u32>()
WriteSize == Sub64(IxDataSize, ToLE(SIZE_U32, SIZE_U64))

\* `*(ptr as *const u64)` at offset off of the 8-byte aligned region: a load
\* that is not 8-byte aligned is undefined behaviour; the build either executes
\* it as a plain load or traps on it (misaligned pointer dereference)
LoadTraps(off) == IF off % SIZE_U64 = 0 THEN {FALSE} ELSE {FALSE, TRUE}

\* variant: the u64 read is used unmasked
WriteDataOffset_NoMask ==
    Add64(RawParts(PayloadOffset, SIZE_U64), ToLE(BUFFER_DATA, SIZE_U64))
\* Write: the u64 at the payload, masked to 24 bits, plus BUFFER_DATA.  The
\* read starts one byte behind an 8-byte boundary and covers the three offset
\* bytes and the five bytes behind them.
WriteDataOffset ==
    Add64(And64(RawParts(PayloadOffset, SIZE_U64), ToLE(U24_MASK, SIZE_U64)),
          ToLE(BUFFER_DATA, SIZE_U64))

\* Write: offset += size_of::<u24>()
WriteSrc == PayloadOffset + SIZE_U24

(***************************************************************************)
(* Initial state: a fresh buffer account owned by the program, no          *)
(* invocation prepared yet.                                                *)
(***************************************************************************)
NoInputs ==
    /\ numAccounts = Zero64
    /\ signerFlags = <<0, 0, 0, 0>>
    /\ signerKey = ZeroKey
    /\ signerLamports = Zero64
    /\ ixBase = 0
    /\ ixData = <<>>
    /\ ixBlock = <<>>
    /\ ret = 0
    /\ log = ""

Init ==
    /\ pc = "idle"
    /\ NoInputs
    /\ bufOwner = ProgramId
    /\ bufLamports \in BufferLamportVals
    /\ bufSize \in {1, MaxSize}
    /\ bufAuth = ZeroKey
    /\ bufData = OldData
    /\ aborted = FALSE
    /\ inited = FALSE
    /\ closedBy = <<>>
    /\ handOver = <<>>

(***************************************************************************)
(* The host.  HostPrepare serialises the next invocation around the buffer *)
(* record the last one left; the signer is any sample signer, or the       *)
(* signer record a Close just before left.  HostRelease takes the region   *)
(* back after a return; after a fault the run ends.                        *)
(***************************************************************************)
HostPrepare ==
    /\ pc = "idle"
    /\ pc' = "ready"
    /\ numAccounts' \in AccountCounts
    /\ signerFlags' \in SignerFlagSets
    /\ \E s \in Signers \cup (IF closedBy = <<>> THEN {} ELSE {closedBy}) :
           /\ signerKey' = s[1]
           /\ signerLamports' = s[2]
    /\ ixData' \in Instructions
    /\ ixBlock' = HostIxBlock(ixData')
    /\ ixBase' = HostIxBase(bufSize)
    /\ UNCHANGED <<bufferRec, ret, log, aborted, inited, closedBy, handOver>>

HostRelease ==
    /\ pc = "done"
    /\ ~aborted
    /\ pc' = "idle"
    /\ closedBy' = IF log = "Close" /\ ret = 0 THEN signerRec ELSE <<>>
    /\ numAccounts' = Zero64
    /\ signerFlags' = <<0, 0, 0, 0>>
    /\ signerKey' = ZeroKey
    /\ signerLamports' = Zero64
    /\ ixBase' = 0
    /\ ixData' = <<>>
    /\ ixBlock' = <<>>
    /\ ret' = 0
    /\ log' = ""
    /\ UNCHANGED <<bufferRec, aborted, inited, handOver>>

(***************************************************************************)
(* The paths of entrypoint (lib.rs:42-146).                                *)
(***************************************************************************)
Return(line, code) ==
    /\ pc' = "done"
    /\ log' = line
    /\ ret' = code
    /\ UNCHANGED <<inputs, signerKey, closedBy>>

\* 1a) lib.rs:49-53
RejectAccounts ==
    /\ pc = "ready"
    /\ ~PassAccounts
    /\ Return("Wrong number of accounts", 1)
    /\ UNCHANGED <<signerLamports, bufferRec, ixBlock, aborted, inited, handOver>>

\* 1b) lib.rs:56-60
RejectSigner ==
    /\ pc = "ready"
    /\ PassAccounts
    /\ ~PassSigner
    /\ Return("Missing signer", 1)
    /\ UNCHANGED <<signerLamports, bufferRec, ixBlock, aborted, inited, handOver>>

\* lib.rs:91-95
RejectAuthority ==
    /\ pc = "ready"
    /\ PassAccounts
    /\ PassSigner
    /\ AuthorityMismatch
    /\ Return("Invalid authority", 1)
    /\ UNCHANGED <<signerLamports, bufferRec, ixBlock, aborted, inited, handOver>>

Dispatch(d) ==
    /\ pc = "ready"
    /\ PassAccounts
    /\ PassSigner
    /\ ~AuthorityMismatch
    /\ Discriminator = d

\* variant: Init also records the number of bytes copied as the stored length
IxInit_StoresLength ==
    /\ Dispatch(0)
    /\ bufAuth' = sol_memcpy(bufAuth, signerKey, PUBKEY_LENGTH)
    /\ \E k \in CopiedLengths(ToLE(BUFFER_DATA, SIZE_U64), PayloadOffset, InitSize) :
           /\ bufData' = DataAfterCopy(ToLE(BUFFER_DATA, SIZE_U64), PayloadOffset, k)
           /\ ixBlock' = BlockAfterCopy(ToLE(BUFFER_DATA, SIZE_U64), PayloadOffset, k)
    /\ aborted' = Faults(ToLE(BUFFER_DATA, SIZE_U64), PayloadOffset, InitSize)
    /\ bufSize' = IF IsSmall(InitSize) THEN SmallVal(InitSize) ELSE bufSize
    /\ inited' = TRUE
    /\ handOver' = <<>>
    /\ Return("Init", 0)
    /\ UNCHANGED <<signerLamports, bufOwner, bufLamports>>

\* 0. INIT, lib.rs:99-106
IxInit ==
    /\ Dispatch(0)
    /\ bufAuth' = sol_memcpy(bufAuth, signerKey, PUBKEY_LENGTH)
    /\ \E k \in CopiedLengths(ToLE(BUFFER_DATA, SIZE_U64), PayloadOffset, InitSize) :
           /\ bufData' = DataAfterCopy(ToLE(BUFFER_DATA, SIZE_U64), PayloadOffset, k)
           /\ ixBlock' = BlockAfterCopy(ToLE(BUFFER_DATA, SIZE_U64), PayloadOffset, k)
    /\ aborted' = Faults(ToLE(BUFFER_DATA, SIZE_U64), PayloadOffset, InitSize)
    /\ inited' = TRUE
    /\ handOver' = <<>>
    /\ Return("Init", 0)
    /\ UNCHANGED <<signerLamports, bufOwner, bufLamports, bufSize>>

\* variant: the key is read from the discriminator byte on
NewAuthority_FromDiscriminator == RawParts(IxOffset + SIZE_U64, PUBKEY_LENGTH)
\* Assign: from_raw_parts(input.add(offset), PUBKEY_LENGTH)
NewAuthority == RawParts(PayloadOffset, PUBKEY_LENGTH)

\* Assign: the 32 bytes of new_authority do not all lie inside the region, and
\* the copy of lib.rs:111 cannot read them
AssignFaults == PayloadOffset + PUBKEY_LENGTH > InputEnd

\* 1. ASSIGN, lib.rs:108-112
IxAssign ==
    /\ Dispatch(1)
    /\ aborted' = AssignFaults
    /\ bufAuth' = IF AssignFaults THEN bufAuth
                  ELSE sol_memcpy(bufAuth, NewAuthority, PUBKEY_LENGTH)
    /\ handOver' = IF AssignFaults THEN handOver ELSE <<bufAuth, bufAuth'>>
    /\ Return("Assign", 0)
    /\ UNCHANGED <<signerLamports, bufOwner, bufLamports, bufSize, bufData, ixBlock,
                   inited>>

\* 2. WRITE, lib.rs:114-126
IxWrite ==
    /\ Dispatch(2)
    /\ \E trap \in LoadTraps(PayloadOffset) :
           /\ aborted' = (trap \/ Faults(WriteDataOffset, WriteSrc, WriteSize))
           /\ \E k \in (IF trap THEN {0}
                        ELSE CopiedLengths(WriteDataOffset, WriteSrc, WriteSize)) :
                  /\ bufData' = DataAfterCopy(WriteDataOffset, WriteSrc, k)
                  /\ ixBlock' = BlockAfterCopy(WriteDataOffset, WriteSrc, k)
    /\ Return("Write", 0)
    /\ UNCHANGED <<signerLamports, bufOwner, bufLamports, bufSize, bufAuth, inited, handOver>>

\* variant: the buffer balance is not wiped
WipedLamports_Kept == bufLamports
\* Close: `*(input.add(BUFFER_LAMPORTS) as *mut u64) = 0u64`
WipedLamports == Zero64

\* 3. CLOSE, lib.rs:128-140
IxClose ==
    /\ Dispatch(3)
    /\ signerLamports' = Add64(signerLamports, bufLamports)
    /\ bufLamports' = WipedLamports
    /\ bufSize' = 0
    /\ bufOwner' = ZeroKey
    /\ Return("Close", 0)
    /\ UNCHANGED <<bufAuth, bufData, ixBlock, aborted, inited, handOver>>

\* variant: the default branch logs its line but sets no return code
IxInvalid_NoCode ==
    /\ pc = "ready"
    /\ PassAccounts
    /\ PassSigner
    /\ ~AuthorityMismatch
    /\ Discriminator \notin 0..3
    /\ Return("Invalid IX", 0)
    /\ UNCHANGED <<signerLamports, bufferRec, ixBlock, aborted, inited, handOver>>

\* lib.rs:141-144
IxInvalid ==
    /\ pc = "ready"
    /\ PassAccounts
    /\ PassSigner
    /\ ~AuthorityMismatch
    /\ Discriminator \notin 0..3
    /\ Return("Invalid IX", 1)
    /\ UNCHANGED <<signerLamports, bufferRec, ixBlock, aborted, inited, handOver>>

Next ==
    \/ HostPrepare
    \/ HostRelease
    \/ RejectAccounts
    \/ RejectSigner
    \/ RejectAuthority
    \/ IxInit
    \/ IxAssign
    \/ IxWrite
    \/ IxClose
    \/ IxInvalid

Spec == Init /\ [][Next]_vars

(***************************************************************************)
(* One invocation on a buffer account of any stored length up to           *)
(* MaxStored, fresh or with KeyA as its authority.                         *)
(***************************************************************************)
LayoutInit ==
    /\ pc = "idle"
    /\ NoInputs
    /\ bufOwner = ProgramId
    /\ bufLamports \in BufferLamportVals
    /\ bufSize \in 0..MaxStored
    /\ bufAuth \in {ZeroKey, KeyA}
    /\ bufData = OldData
    /\ aborted = FALSE
    /\ inited = (bufAuth # ZeroKey)
    /\ closedBy = <<>>
    /\ handOver = <<>>

LayoutNext ==
    \/ HostPrepare
    \/ RejectAccounts
    \/ RejectSigner
    \/ RejectAuthority
    \/ IxInit
    \/ IxAssign
    \/ IxWrite
    \/ IxClose
    \/ IxInvalid

LayoutSpec == LayoutInit /\ [][LayoutNext]_vars

(***************************************************************************)
(* Vocabulary of the properties, in terms of the region's contents.        *)
(***************************************************************************)
TwoAccounts == <<2, 0, 0, 0, 0, 0, 0, 0>>
SignerMutNoDup == <<255, 1, 1, 0>>
Branches == {"Init", "Assign", "Write", "Close"}

\* the entrypoint is about to run and both structural guards will pass
Guarded == pc = "ready" /\ PassAccounts /\ PassSigner

\* k-th byte behind the discriminator byte (k >= 1), as the host laid it out
PayloadByte(k) == (ixData \o ProgramId)[k + 1]

NoMutation == UNCHANGED <<signerRec, bufferRec>>

\* C1 (as claimed): an invocation whose 8-byte account count is not 2 (258
\* included) runs no operation branch, signals failure and changes no signer
\* or buffer field.  Stated on the invocations that return, so that a
\* violation does not rest on a faulting copy.
C1_CountGuardRejects ==
    [][(pc = "ready" /\ numAccounts # TwoAccounts /\ ~aborted')
        => (log' \notin Branches /\ ret' = 1 /\ NoMutation)]_vars

\* C2: with account count 2 and signer flags other than ff 01 01 00, no
\* operation branch runs, failure is signalled and no signer or buffer field
\* changes, whatever the instruction is.
C2_SignerGuardRejects ==
    [][(pc = "ready" /\ numAccounts = TwoAccounts /\ signerFlags # SignerMutNoDup)
        => (log' \notin Branches /\ ret' = 1 /\ NoMutation)]_vars

\* C2 witness: an Init with payload, signed with the executable flag set in the
\* fourth header byte, was rejected as "Missing signer".
C2_Witness ==
    /\ pc = "done"
    /\ numAccounts = TwoAccounts
    /\ signerFlags = <<255, 1, 1, 1>>
    /\ ixData = <<0>> \o InitPayload(1)
    /\ log = "Missing signer"
    /\ ret = 1

\* the effects of the table in spec section 4.3, stated on the host's view
AssignEffect ==
    /\ bufAuth' = [i \in 1..PUBKEY_LENGTH |-> PayloadByte(i)]
    /\ UNCHANGED <<signerRec, bufOwner, bufLamports, bufSize, bufData>>

WriteOffsetOf == PayloadByte(1) + 256 * PayloadByte(2) + 65536 * PayloadByte(3)
WriteCountOf == IF Len(ixData) >= 4 THEN Len(ixData) - 4 ELSE 0

WriteEffect ==
    /\ \A i \in 1..MaxSize :
           bufData'[i] =
               IF WriteOffsetOf <= i - 1 /\ i - 1 < WriteOffsetOf + WriteCountOf
               THEN PayloadByte(4 + (i - 1 - WriteOffsetOf))
               ELSE bufData[i]
    /\ UNCHANGED <<signerRec, bufOwner, bufLamports, bufSize, bufAuth>>

\* c is a + b: as integers where they fit, else as wrapping u64
LamportSum(a, b, c) ==
    IF IsSmall(a) /\ IsSmall(b)
    THEN c = ToLE(SmallVal(a) + SmallVal(b), SIZE_U64)
    ELSE c = Add64(a, b)

CloseEffect ==
    /\ LamportSum(signerLamports, bufLamports, signerLamports')
    /\ bufLamports' = Zero64
    /\ bufSize' = 0
    /\ bufOwner' = ZeroKey
    /\ UNCHANGED <<signerKey, bufAuth, bufData>>

\* C3 (as claimed): a guarded invocation with discriminator 1, 2 or 3 is
\* rejected without mutation when the signer key differs from the stored
\* authority, and otherwise applies exactly the selected effect and does not
\* fail.
C3_AuthorityGate ==
    [][(Guarded /\ Discriminator \in 1..3)
        => IF signerKey # bufAuth
           THEN ret' = 1 /\ NoMutation
           ELSE /\ ret' = 0
                /\ ~aborted'
                /\ Discriminator = 1 => AssignEffect
                /\ Discriminator = 2 => WriteEffect
                /\ Discriminator = 3 => CloseEffect]_vars

\* C4 (as claimed): once an Init has run, the buffer's authority and data are
\* changed only by invocations whose signer key equals the authority stored
\* when the invocation starts.  Stated on the invocations that return, so that
\* a violation does not rest on a faulting copy.
C4_ExclusiveWriter ==
    [][(pc = "ready" /\ inited /\ ~aborted'
            /\ (bufAuth' # bufAuth \/ bufData' # bufData))
        => signerKey = bufAuth]_vars

\* C4 (amended): once an Init has run, the buffer's authority and data are
\* changed only by invocations whose signer key equals the stored authority,
\* or by a further Init, which any signer that passes the structural guards
\* may issue.
C4_ExclusiveWriterButInit ==
    [][(pc = "ready" /\ inited /\ (bufAuth' # bufAuth \/ bufData' # bufData))
        => (signerKey = bufAuth \/ (Guarded /\ log' = "Init"))]_vars

\* C4 witness: on an initialised buffer whose authority is KeyB, a Write signed
\* by KeyB has changed the data.
C4_Witness ==
    /\ pc = "done"
    /\ inited
    /\ log = "Write"
    /\ ~aborted
    /\ signerKey = KeyB
    /\ bufAuth = KeyB
    /\ bufData[1] = 255

\* what Init copies: the bytes behind the discriminator
InitCountOf == IF Len(ixData) >= 1 THEN Len(ixData) - 1 ELSE 0

InitEffect ==
    /\ bufAuth' = signerKey
    /\ \A i \in 1..MaxSize :
           bufData'[i] = IF i <= InitCountOf THEN PayloadByte(i) ELSE bufData[i]

\* C5 (as claimed): every guarded invocation with discriminator 0 succeeds
\* whatever the stored authority is, sets the authority to the signer key and
\* copies the payload-length-minus-1 bytes behind the discriminator to the
\* start of the buffer data.
C5_InitAlwaysSucceeds ==
    [][(Guarded /\ Discriminator = 0)
        => (ret' = 0 /\ ~aborted' /\ log' = "Init" /\ InitEffect)]_vars

\* the read of the buffer data: stored-length bytes from the data offset
ReadData(data, size) == SubSeq(data, 1, size)

\* C6 (as claimed): after a successful Init with payload P, the stored-length
\* bytes at the buffer data offset are exactly P without its discriminator.
C6_InitRoundTrip ==
    [][(pc = "ready" /\ log' = "Init" /\ ~aborted')
        => ReadData(bufData', bufSize') = SubSeq(ixData, 2, Len(ixData))]_vars

\* C6 (amended): after a successful Init with payload P, the first Len(P)-1
\* bytes at the buffer data offset are exactly P without its discriminator;
\* the stored length and the data bytes behind them are as before.
C6_InitPrefixRoundTrip ==
    [][(pc = "ready" /\ log' = "Init" /\ ~aborted')
        => /\ SubSeq(bufData', 1, InitCountOf) = SubSeq(ixData, 2, Len(ixData))
           /\ \A i \in (InitCountOf + 1)..MaxSize : bufData'[i] = bufData[i]
           /\ bufSize' = bufSize]_vars

\* C6 witness: an Init with a one-byte payload has run on a buffer of stored
\* length MaxSize, and the old bytes behind the payload are still there.
C6_Witness ==
    /\ pc = "done"
    /\ log = "Init"
    /\ ~aborted
    /\ ixData = <<0>> \o InitPayload(1)
    /\ bufSize = MaxSize
    /\ bufData = InitPayload(1) \o SubSeq(OldData, 2, MaxSize)

\* C7: a Write that passes the gate with a 3-byte little-endian offset o and
\* n data bytes has its destination at data offset o, decided by the three
\* offset bytes alone whatever the bytes behind them are; if it succeeds, it
\* has overwritten exactly bytes [o, o+n) of the buffer data with those bytes
\* and changed no other data byte nor the authority.
C7_WriteFrame ==
    [][(Guarded /\ Discriminator = 2 /\ signerKey = bufAuth /\ Len(ixData) >= 4)
        => /\ WriteDataOffset = ToLE(BUFFER_DATA + WriteOffsetOf, SIZE_U64)
           /\ (log' = "Write" /\ ~aborted') => (ret' = 0 /\ WriteEffect)]_vars

\* C7 witness: a Write of two bytes at offset 1 has replaced bytes 1 and 2 of
\* the data and left byte 0 as it was.
C7_Witness ==
    /\ pc = "done"
    /\ log = "Write"
    /\ ~aborted
    /\ ixData = <<2, 1, 0, 0>> \o WritePayload(2)
    /\ bufData = <<OldData[1]>> \o WritePayload(2)

\* C8: an accepted Close adds the buffer balance to the signer balance (u64
\* addition), zeroes the buffer balance, the stored length and the 32 owner
\* bytes, and leaves the authority and the data bytes as they were.
C8_CloseEffect ==
    [][(Guarded /\ Discriminator = 3 /\ signerKey = bufAuth)
        => (ret' = 0 /\ ~aborted' /\ log' = "Close" /\ CloseEffect)]_vars

\* C8 witness: a Close by KeyA has moved 7 lamports to a signer that held 250;
\* the buffer is zeroed but still carries its authority.
C8_Witness ==
    /\ pc = "done"
    /\ log = "Close"
    /\ signerLamports = ToLE(257, SIZE_U64)
    /\ bufLamports = Zero64
    /\ bufSize = 0
    /\ bufOwner = ZeroKey
    /\ bufAuth = KeyA
    /\ signerKey = KeyA

\* C9: a Close by the signer record that the successful Close just before
\* left still passes the authority gate, succeeds, and leaves both balances,
\* the stored length and the owner as the first Close left them.
C9_CloseAfterClose ==
    [][(Guarded /\ Discriminator = 3 /\ closedBy # <<>> /\ signerRec = closedBy)
        => /\ ret' = 0
           /\ log' = "Close"
           /\ ~aborted'
           /\ UNCHANGED <<signerLamports, bufLamports, bufSize, bufOwner>>]_vars

\* C9 witness: the second of two consecutive Closes by the same signer record
\* has returned.
C9_Witness ==
    /\ pc = "done"
    /\ closedBy # <<>>
    /\ signerRec = closedBy
    /\ ixData = <<3>>
    /\ log = "Close"
    /\ ret = 0

\* C10 (as claimed): a guarded invocation with a discriminator outside 0..3
\* logs "Invalid IX", signals failure and mutates nothing, whatever the signer
\* key and the stored authority are.
C10_UnknownIsInvalidIx ==
    [][(Guarded /\ Discriminator \notin 0..3)
        => (log' = "Invalid IX" /\ ret' = 1 /\ NoMutation)]_vars

\* C10 (amended): a guarded invocation with a discriminator outside 0..3
\* signals failure and mutates nothing; it logs "Invalid IX" when the signer
\* key equals the stored authority and "Invalid authority" when it does not.
C10_UnknownRejected ==
    [][(Guarded /\ Discriminator \notin 0..3)
        => /\ log' = (IF signerKey = bufAuth THEN "Invalid IX" ELSE "Invalid authority")
           /\ ret' = 1
           /\ NoMutation]_vars

\* C10 witness: discriminator 9 signed by a key that is not the stored
\* authority was rejected as "Invalid authority".
C10_Witness ==
    /\ pc = "done"
    /\ ixData = <<9>>
    /\ signerKey # bufAuth
    /\ PassAccounts
    /\ PassSigner
    /\ log = "Invalid authority"
    /\ ret = 1

\* the single effect selected by the branch that ran, applied in full
SelectedEffect ==
    /\ log' \in Branches
    /\ log' = "Init" => (InitEffect /\ UNCHANGED <<signerRec, bufOwner, bufLamports, bufSize>>)
    /\ log' = "Assign" => AssignEffect
    /\ log' = "Write" => WriteEffect
    /\ log' = "Close" => CloseEffect

\* C11 (as claimed): every invocation either signals failure and leaves every
\* signer and buffer field as it was, or signals no failure, completes and has
\* applied exactly the effect of the one selected operation in full.
C11_NoPartialSuccess ==
    [][pc = "ready"
        => \/ ret' = 1 /\ NoMutation
           \/ ret' = 0 /\ ~aborted' /\ SelectedEffect]_vars

\* the diagnostics of the three guards
GuardLines == {"Wrong number of accounts", "Missing signer", "Invalid authority"}

\* C12: the return signal of an invocation is 0 or 1; it is 1 exactly when one
\* of the three guards rejected the call or the discriminator is outside 0..3,
\* and an invocation that reaches one of the branches 0..3 leaves it 0.
C12_ReturnCode ==
    [][pc = "ready"
        => /\ ret' \in {0, 1}
           /\ ret' = 1 <=> (log' \in GuardLines \/ Discriminator \notin 0..3)
           /\ log' \in Branches => ret' = 0
           /\ log' \in Branches \cup GuardLines \cup {"Invalid IX"}]_vars

\* C12 witness: discriminator 9 signed by the stored authority reached the
\* default branch and returned the failure code.
C12_Witness ==
    /\ pc = "done"
    /\ PassAccounts
    /\ PassSigner
    /\ ixData = <<9>>
    /\ signerKey = bufAuth
    /\ log = "Invalid IX"
    /\ ret = 1

\* the branch a discriminator in 1..3 selects
BranchOf(d) == <<"Assign", "Write", "Close">>[d]

\* C13: an Assign signed by the stored authority A with payload key B sets the
\* stored authority to B and leaves the data as they are; from then until the
\* next Init or Assign the stored authority stays B, an Assign, Write or Close
\* signed by A (A # B) is rejected without mutation, and one signed by B
\* passes the gate and runs its branch.
C13_HandOver ==
    [][/\ (Guarded /\ Discriminator = 1 /\ signerKey = bufAuth)
           => /\ ret' = 0
              /\ log' = "Assign"
              /\ bufAuth' = [i \in 1..PUBKEY_LENGTH |-> PayloadByte(i)]
              /\ bufData' = bufData
       /\ (Guarded /\ Discriminator \in 1..3 /\ handOver # <<>>)
           => /\ bufAuth = handOver[2]
              /\ (signerKey = handOver[1] /\ handOver[1] # handOver[2])
                     => (ret' = 1 /\ NoMutation)
              /\ signerKey = handOver[2]
                     => (ret' = 0 /\ log' = BranchOf(Discriminator))]_vars

\* C13 witness: after KeyA handed the buffer to KeyB, a Write signed by KeyA
\* was rejected.
C13_Witness ==
    /\ pc = "done"
    /\ handOver = <<KeyA, KeyB>>
    /\ bufAuth = KeyB
    /\ signerKey = KeyA
    /\ PassAccounts
    /\ PassSigner
    /\ ixData = <<2, 0, 0, 0>> \o WritePayload(1)
    /\ log = "Invalid authority"
    /\ ret = 1

\* C14 (as claimed): the diagnostic of an invocation is that of the earliest
\* violation in the order account count, signer flags, authority, unknown
\* discriminator; with a bad account count it is "Wrong number of accounts"
\* whatever the signer flags, the stored length, the discriminator and the keys
\* are, and with count 2 and bad signer flags it is "Missing signer" whatever
\* the others are.
C14_GuardOrder ==
    [][pc = "ready"
        => log' = IF numAccounts # TwoAccounts THEN "Wrong number of accounts"
                  ELSE IF signerFlags # SignerMutNoDup THEN "Missing signer"
                  ELSE IF Discriminator > 0 /\ signerKey # bufAuth THEN "Invalid authority"
                  ELSE IF Discriminator \notin 0..3 THEN "Invalid IX"
                  ELSE log']_vars

\* the least multiple of 8 that is not below x
RoundUp8(x) == CHOOSE m \in x..(x + 7) : m % 8 = 0

\* C15: for every stored length L the length field is read at
\* roundUp8(0x50c8 + L), which is 0x50c8 + L itself when L is a multiple of 8
\* and the next multiple of 8 otherwise; the discriminator is read 8 bytes and
\* the payload 9 bytes behind that offset, so the decoder finds the declared
\* length, the discriminator and the payload where the host put them.
C15_LayoutDecoding ==
    pc = "ready"
        => /\ IxOffset = RoundUp8(IX_MIN_OFFSET + bufSize)
           /\ bufSize % 8 = 0 => IxOffset = IX_MIN_OFFSET + bufSize
           /\ bufSize % 8 # 0 => IxOffset > IX_MIN_OFFSET + bufSize
           /\ PayloadOffset = RoundUp8(IX_MIN_OFFSET + bufSize) + 9
           /\ IxDataSize = ToLE(Len(ixData), SIZE_U64)
           /\ Discriminator = (ixData \o ProgramId)[1]
           /\ RawParts(PayloadOffset, InitCountOf) = SubSeq(ixData, 2, Len(ixData))

\* C15 witness: on a buffer of stored length 9 the instruction block is
\* decoded at 0x50d8 and a Write instruction is found there.
C15_Witness ==
    /\ pc = "ready"
    /\ bufSize = 9
    /\ IxOffset = 20696
    /\ ixData = <<2, 1, 0, 0>> \o WritePayload(2)
    /\ Discriminator = 2
    /\ RawParts(PayloadOffset, 5) = <<1, 0, 0>> \o WritePayload(2)

\* the true sum of two u64 balances: 8 little-endian bytes and the carry out
TrueSum(a, b) == Add64(a, b) \o <<Carry(a, b, SIZE_U64)>>

\* C16 (as claimed): over every invocation the true sum of the signer balance
\* and the buffer balance stays the same, for all u64 balances, and the signer
\* record and the two balances change only in a successful Close.
C16_LamportConservation ==
    [][pc = "ready"
        => /\ TrueSum(signerLamports', bufLamports') = TrueSum(signerLamports, bufLamports)
           /\ (signerRec' # signerRec \/ bufLamports' # bufLamports)
                  => (log' = "Close" /\ ret' = 0)]_vars

\* a <= b on u64 values held as 8 little-endian bytes
Le64(a, b) == Borrow(b, a, SIZE_U64) = 0

\* C17 (as claimed): whatever the declared length L is, the number of bytes an
\* Init copies (L - 1) and the number a Write copies (L - 4) is not above L.
C17_CopyLengthNoWrap ==
    [][pc = "ready"
        => /\ log' = "Init" => Le64(InitSize, IxDataSize)
           /\ log' = "Write" => Le64(WriteSize, IxDataSize)]_vars

\* C18: an Init, Assign or Write changes neither the stored length, the owner
\* and the balance of the buffer nor the balance of the signer; over any
\* sequence of invocations the stored length changes only in a successful
\* Close, where it becomes 0.
C18_Frame ==
    [][/\ (pc = "ready" /\ log' \in {"Init", "Assign", "Write"})
           => UNCHANGED <<bufSize, bufOwner, bufLamports, signerLamports>>
       /\ bufSize' # bufSize
           => (pc = "ready" /\ log' = "Close" /\ ret' = 0 /\ bufSize' = 0)]_vars

\* C18 witness: an Init with a two-byte payload has run on a buffer of stored
\* length 1; length, owner and both balances are as before.
C18_Witness ==
    /\ pc = "done"
    /\ log = "Init"
    /\ ~aborted
    /\ ixData = <<0>> \o InitPayload(2)
    /\ SubSeq(bufData, 1, 2) = InitPayload(2)
    /\ bufSize = 1
    /\ bufOwner = ProgramId
    /\ bufLamports = ToLE(7, SIZE_U64)
    /\ signerLamports = ToLE(250, SIZE_U64)
====
